---- MODULE Spec2Model ----
(***************************************************************************)
(* Model of the nm_widget developer scripts:                               *)
(*   extract_clean_css.py, clean_css.py, create_clean_css.py  (CSS filter) *)
(*   generate_icons.py                                     (icon generator)*)
(*                                                                         *)
(* Text is modelled as a sequence of tokens.  A token is a short piece of  *)
(* CSS text; inside a line the tokens are separated by single spaces, and  *)
(* the token NL is the newline character.  Every substring the scripts     *)
(* search for is free of spaces and newlines, so it occurs in a text       *)
(* exactly when it occurs in one of the text's tokens (table Subs); the    *)
(* prefixes they test are prefixes of a line's first token (Prefixes).     *)
(***************************************************************************)
EXTENDS Integers, Sequences, FiniteSets, TLC

VARIABLES
    script,                   \* which script is running
    pc,                       \* position of the running script
    input_file,               \* content of the input path, or Missing
    output_file,              \* content of the output path
    printed,                  \* TRUE once the summary lines are printed
    lines,                    \* the list of input lines
    i,                        \* loop cursor (0-based, as in the source)
    keep_lines,               \* extract_clean_css: lines kept
    kept_idx,                 \* history: source position of every kept line
    skip_until_next_section,  \* extract_clean_css: section skip flag
    cleaned_lines,            \* clean_css / create_clean_css: lines kept
    skip_block,               \* clean_css / create_clean_css
    brace_count,              \* clean_css
    current_selector_lines,   \* clean_css
    block_depth,              \* create_clean_css
    current_block_lines,      \* create_clean_css
    size_i,                   \* generate_icons: position in sizes
    img,                      \* generate_icons: the canvas being drawn
    font,                     \* generate_icons: the font selected
    files                     \* generate_icons: files written, in order

iconVars == <<size_i, img, font, files>>
vars     == <<script, pc, input_file, output_file, printed, lines, i, keep_lines,
              kept_idx, skip_until_next_section, cleaned_lines, skip_block,
              brace_count, current_selector_lines, block_depth,
              current_block_lines, size_i, img, font, files>>

----------------------------------------------------------------------------
(* Bounds of the model *)

MaxLinesExtract == 4
MaxLinesClean   == 4
MaxLinesCreate  == 5

----------------------------------------------------------------------------
(* Tokens and the character-level facts the scripts test *)

NL     == "\n"
INDENT == "  "
SKIN   == ".nativemimic-skin-grid"
DARK   == ".nativemimic-dark-mode"
SPEECH == ".nativemimic-speech-controls.nativemimic-dark-mode"
HEADER == "/*==*/"
SKINCOMMENT == "/* skin-presets */"
COMMACOMMENT == "/* a, b */"
SKINHEADER == "/*skin-presets*/"
SKINID == "#nativemimic-skin-panel"

Whitespace == {NL, INDENT}

\* The searched-for substrings that occur in a token.
Subs(tok) ==
    CASE tok = SKIN        -> {".nativemimic-skin-", "nativemimic-skin-", "skin-grid"}
      [] tok = DARK        -> {".nativemimic-dark-mode"}
      [] tok = SPEECH      -> {".nativemimic-dark-mode", SPEECH}
      [] tok = SKINCOMMENT -> {"skin-presets"}
      [] tok = SKINHEADER  -> {"skin-presets"}
      [] tok = SKINID      -> {"nativemimic-skin-"}
      [] tok = "{"         -> {"{"}
      [] tok = "}"         -> {"}"}
      [] tok = ","         -> {","}
      [] tok = COMMACOMMENT -> {","}
      [] OTHER             -> {}

\* The tested prefixes a token starts with.
Prefixes(tok) ==
    CASE tok \in {SKIN, DARK, SPEECH, ".a"} -> {"."}
      [] tok \in {"#id", SKINID}             -> {"#"}
      [] tok \in {HEADER, SKINHEADER}        -> {"/*"}
      [] tok \in {SKINCOMMENT, COMMACOMMENT}  -> {"/*", "/* "}
      [] OTHER                               -> {}

\* `sub in text`
In(sub, text) == \E k \in DOMAIN text : sub \in Subs(text[k])

\* text.count(ch) for a one-character token ch
Count(text, ch) == Cardinality({k \in DOMAIN text : text[k] = ch})

\* text.startswith(p)
StartsWith(text, p) == text # <<>> /\ p \in Prefixes(text[1])

\* text.strip(): drops leading and trailing whitespace
RECURSIVE LStrip(_)
LStrip(text) ==
    IF text # <<>> /\ text[1] \in Whitespace THEN LStrip(Tail(text)) ELSE text

RECURSIVE RStrip(_)
RStrip(text) ==
    IF text # <<>> /\ text[Len(text)] \in Whitespace
    THEN RStrip(SubSeq(text, 1, Len(text) - 1)) ELSE text

Strip(text) == RStrip(LStrip(text))

\* content.split('\n'): always at least one line
RECURSIVE Split(_)
Split(content) ==
    IF \A k \in DOMAIN content : content[k] # NL THEN <<content>>
    ELSE LET p == CHOOSE k \in DOMAIN content :
                      content[k] = NL /\ \A j \in 1..(k-1) : content[j] # NL
         IN <<SubSeq(content, 1, p - 1)>>
                \o Split(SubSeq(content, p + 1, Len(content)))

\* Join with a newline written after every line, the last one included
RECURSIVE Join_NewlineAfterEach(_)
Join_NewlineAfterEach(ls) ==
    IF ls = <<>> THEN <<>>
    ELSE ls[1] \o <<NL>> \o Join_NewlineAfterEach(Tail(ls))

\* '\n'.join(ls)
RECURSIVE Join(_)
Join(ls) ==
    IF ls = <<>> THEN <<>>
    ELSE IF Len(ls) = 1 THEN ls[1]
    ELSE ls[1] \o <<NL>> \o Join(Tail(ls))

\* f.readlines(): every line keeps its newline; no line after a final newline
ReadLines(content) ==
    LET parts == Split(content)
        n     == Len(parts)
    IN  [k \in 1..(IF parts[n] = <<>> THEN n - 1 ELSE n) |->
            IF k < n THEN parts[k] \o <<NL>> ELSE parts[k]]

\* ''.join(ls), also what f.writelines(ls) writes
RECURSIVE Concat(_)
Concat(ls) == IF ls = <<>> THEN <<>> ELSE ls[1] \o Concat(Tail(ls))

\* lines[i] with the source's 0-based index
At(ls, k) == ls[k + 1]

\* the positions a, a+1, ..., b as a sequence
Positions(a, b) == [k \in 1..(b - a + 1) |-> a + k - 1]

----------------------------------------------------------------------------
(* Input stylesheets *)

\* the value of a path at which no file exists
Missing == <<"(no such file)">>

SeqsUpTo(S, n) == UNION {[1..m -> S] : m \in 1..n}

\* The file at the output path before the run
OldOutput == <<"stale">>

extractVars == <<keep_lines, skip_until_next_section>>
cleanVars   == <<cleaned_lines, skip_block, brace_count, current_selector_lines>>
createVars  == <<block_depth, current_block_lines>>
fileVars    == <<input_file, output_file, printed>>

----------------------------------------------------------------------------
(* extract_clean_css.py *)

ExtractCatalog ==
    { <<DARK, "{">>,
      <<DARK, ",">>,
      <<INDENT, SPEECH, "{", "color: white;", "}">>,
      <<SKIN, SPEECH, "{">>,
      <<"@media", "{">>,
      <<"}">>,
      <<HEADER>>,
      <<SKINCOMMENT>>,
      <<SKINHEADER>>,
      <<SKINID, "{">> }

ExtractInputs == {Join(ls) : ls \in SeqsUpTo(ExtractCatalog, MaxLinesExtract)}

\* SkipBlock with the skip ended by the first line that holds a closing brace
RECURSIVE SkipBlock_FirstClose(_, _, _)
SkipBlock_FirstClose(ls, k, count) ==
    IF k >= Len(ls) THEN k
    ELSE IF Count(At(ls, k), "}") > 0 THEN k + 1
    ELSE LET c == count + Count(At(ls, k), "{")
         IN  IF c <= 0 THEN k + 1 ELSE SkipBlock_FirstClose(ls, k + 1, c)

\* the two inner `while i < len(lines)` loops (lines 34-41 and 47-54):
\* returns the cursor after the skip
RECURSIVE SkipBlock(_, _, _)
SkipBlock(ls, k, count) ==
    IF k >= Len(ls) THEN k
    ELSE LET c == count + Count(At(ls, k), "{") - Count(At(ls, k), "}")
         IN  IF c <= 0 THEN k + 1 ELSE SkipBlock(ls, k + 1, c)

\* line 24
IsSectionHeader(line) == StartsWith(line, "/*") /\ ~StartsWith(line, "/* ")

\* line 28
IsSkinSection(line) ==
    In("skin-presets", line) \/ In("skin-custom", line) \/ In("skin-grid", line)

\* line 32
IsGeneralDarkMode(line) ==
    In(".nativemimic-dark-mode", line) /\ ~In(SPEECH, line)

\* line 45
IsSkinSelector(line) == In(".nativemimic-skin-", line)

\* ExtractBody without the reset of lines 24-25
ExtractBody_NoReset(ls, st) ==
    LET line  == Strip(At(ls, st.i))
        skip2 == IF IsSkinSection(line) THEN TRUE
                 ELSE st.skip_until_next_section
    IN  IF IsGeneralDarkMode(line) \/ IsSkinSelector(line)
        THEN [st EXCEPT !.i = SkipBlock(ls, st.i, 0),
                        !.skip_until_next_section = skip2]
        ELSE [i |-> st.i + 1,
              keep_lines |-> IF ~skip2 THEN Append(st.keep_lines, At(ls, st.i))
                             ELSE st.keep_lines,
              kept_idx   |-> IF ~skip2 THEN Append(st.kept_idx, st.i)
                             ELSE st.kept_idx,
              skip_until_next_section |-> skip2]

\* one iteration of the outer while loop, on the loop state
\* st = [i, keep_lines, kept_idx, skip_until_next_section]
ExtractBody(ls, st) ==
    LET line  == Strip(At(ls, st.i))
        skip1 == IF IsSectionHeader(line) THEN FALSE
                 ELSE st.skip_until_next_section
        skip2 == IF IsSkinSection(line) THEN TRUE ELSE skip1
    IN  IF IsGeneralDarkMode(line)
        THEN [st EXCEPT !.i = SkipBlock(ls, st.i, 0),
                        !.skip_until_next_section = skip2]
        ELSE IF IsSkinSelector(line)
        THEN [st EXCEPT !.i = SkipBlock(ls, st.i, 0),
                        !.skip_until_next_section = skip2]
        ELSE [i |-> st.i + 1,
              keep_lines |-> IF ~skip2 THEN Append(st.keep_lines, At(ls, st.i))
                             ELSE st.keep_lines,
              kept_idx   |-> IF ~skip2 THEN Append(st.kept_idx, st.i)
                             ELSE st.kept_idx,
              skip_until_next_section |-> skip2]

ExtractStart ==
    [i |-> 0, keep_lines |-> <<>>, kept_idx |-> <<>>,
     skip_until_next_section |-> FALSE]

\* the whole while loop
RECURSIVE ExtractLoop(_, _)
ExtractLoop(ls, st) ==
    IF st.i < Len(ls) THEN ExtractLoop(ls, ExtractBody(ls, st)) ELSE st

\* the content the script writes for a given input content
ExtractFilter(content) ==
    Join(ExtractLoop(Split(content), ExtractStart).keep_lines)


\* lines 10-14: open and read the input, split it into lines
ExtractRead ==
    /\ script = "extract"
    /\ pc = "read"
    /\ input_file # Missing
    /\ lines' = Split(input_file)
    /\ pc' = "loop"
    /\ UNCHANGED <<script, fileVars, i, extractVars, kept_idx, cleanVars, createVars, iconVars>>

\* lines 10-11 raising: the path is absent or unreadable
ExtractReadFails ==
    /\ script = "extract"
    /\ pc = "read"
    /\ pc' = "failed"
    /\ UNCHANGED <<script, fileVars, lines, i, extractVars, kept_idx, cleanVars, createVars,
                   iconVars>>

\* lines 20-60: one iteration of the while loop
ExtractIter ==
    /\ script = "extract"
    /\ pc = "loop"
    /\ i < Len(lines)
    /\ LET st == ExtractBody(lines,
                   [i |-> i, keep_lines |-> keep_lines, kept_idx |-> kept_idx,
                    skip_until_next_section |-> skip_until_next_section])
       IN  /\ i' = st.i
           /\ keep_lines' = st.keep_lines
           /\ kept_idx' = st.kept_idx
           /\ skip_until_next_section' = st.skip_until_next_section
    /\ UNCHANGED <<script, pc, fileVars, lines, cleaned_lines, skip_block,
                   brace_count, current_selector_lines, createVars, iconVars>>

\* line 65: open(output_file, 'w') truncates the file
ExtractOpen ==
    /\ script = "extract"
    /\ pc = "loop"
    /\ i >= Len(lines)
    /\ output_file' = <<>>
    /\ pc' = "write"
    /\ UNCHANGED <<script, input_file, printed, lines, i, extractVars, kept_idx, cleanVars,
                   createVars, iconVars>>

\* line 65 raising: the output path cannot be opened for writing
ExtractOpenFails ==
    /\ script = "extract"
    /\ pc = "loop"
    /\ i >= Len(lines)
    /\ pc' = "failed"
    /\ UNCHANGED <<script, fileVars, lines, i, extractVars, kept_idx, cleanVars, createVars,
                   iconVars>>

\* lines 63, 66: the whole cleaned content is written
ExtractWrite ==
    /\ script = "extract"
    /\ pc = "write"
    /\ output_file' = Join(keep_lines)
    /\ pc' = "print"
    /\ UNCHANGED <<script, input_file, printed, lines, i, extractVars, kept_idx, cleanVars,
                   createVars, iconVars>>

\* line 66 raising (e.g. the disk is full): some proper prefix of the content
\* has reached the truncated file
ExtractWriteFails ==
    /\ script = "extract"
    /\ pc = "write"
    /\ \E n \in 0..(Len(Join(keep_lines)) - 1) :
           output_file' = SubSeq(Join(keep_lines), 1, n)
    /\ pc' = "failed"
    /\ UNCHANGED <<script, input_file, printed, lines, i, extractVars, kept_idx, cleanVars,
                   createVars, iconVars>>

\* lines 68-71
ExtractPrint ==
    /\ script = "extract"
    /\ pc = "print"
    /\ printed' = TRUE
    /\ pc' = "done"
    /\ UNCHANGED <<script, input_file, output_file, lines, i, extractVars, kept_idx, cleanVars,
                   createVars, iconVars>>


----------------------------------------------------------------------------
(* clean_css.py *)

CleanCatalog ==
    { <<DARK, "{", "color: black;", "}">>,
      <<INDENT, SPEECH, "{", "color: white;", "}">>,
      <<DARK, "{">>,
      <<DARK, ",">>,
      <<"div", SKIN, SPEECH, "{">>,
      <<"div">>,
      <<"}">>,
      <<COMMACOMMENT>>,
      <<>> }

CleanInputs == {Join(ls) : ls \in SeqsUpTo(CleanCatalog, MaxLinesClean)}

\* lines 77-94
should_remove_selector(selector_line) ==
    IF In(".nativemimic-skin-", selector_line) THEN TRUE
    ELSE IF In(".nativemimic-dark-mode", selector_line)
            /\ ~In(SPEECH, selector_line) THEN TRUE
    ELSE FALSE

\* line 26
IsSelectorLine(line) ==
    line # <<>> /\ (StartsWith(line, ".") \/ StartsWith(line, "#")
                    \/ In(",", line))

\* InitialBraceCount taken from the braces of the selector line
InitialBraceCount_Counted(line) == Count(line, "{") - Count(line, "}")

\* line 36: the count a skipped block starts with
InitialBraceCount(line) == 1

\* CleanTail with the cursor left in place when a skipped block ends
CleanTail_NoAdvance(ls, st) ==
    LET line == Strip(At(ls, st.i))
    IN  IF st.skip_block
        THEN LET c == st.brace_count + Count(line, "{") - Count(line, "}")
             IN  [st EXCEPT !.i = IF c <= 0 THEN st.i ELSE st.i + 1,
                            !.skip_block = ~(c <= 0),
                            !.brace_count = IF c <= 0 THEN 0 ELSE c]
        ELSE [st EXCEPT !.i = st.i + 1,
                        !.cleaned_lines = Append(st.cleaned_lines, At(ls, st.i)),
                        !.kept_idx = Append(st.kept_idx, st.i)]

\* lines 53-62 and 65-66: the part of an iteration after the selector test,
\* on st = [i, cleaned_lines, kept_idx, skip_block, brace_count,
\* current_selector_lines]; the buffered selector lines are the lines just
\* before the cursor
CleanTail(ls, st) ==
    LET line == Strip(At(ls, st.i))
    IN  IF st.skip_block
        THEN LET c == st.brace_count + Count(line, "{") - Count(line, "}")
             IN  [st EXCEPT !.i = st.i + 1,
                            !.skip_block = ~(c <= 0),
                            !.brace_count = IF c <= 0 THEN 0 ELSE c]
        ELSE [st EXCEPT !.i = st.i + 1,
                        !.cleaned_lines = Append(st.cleaned_lines, At(ls, st.i)),
                        !.kept_idx = Append(st.kept_idx, st.i)]

\* lines 21-66: one iteration of the while loop
CleanBody(ls, st) ==
    LET line == Strip(At(ls, st.i))
        sel  == Append(st.current_selector_lines, At(ls, st.i))
    IN  IF ~st.skip_block
        THEN IF IsSelectorLine(line)
             THEN IF In("{", line)
                  THEN IF should_remove_selector(Concat(sel))
                       THEN [st EXCEPT !.skip_block = TRUE,
                                       !.brace_count = InitialBraceCount(line),
                                       !.current_selector_lines = <<>>,
                                       !.i = st.i + 1]
                       ELSE [st EXCEPT !.cleaned_lines = st.cleaned_lines \o sel,
                                       !.kept_idx = st.kept_idx
                                           \o Positions(st.i - Len(sel) + 1, st.i),
                                       !.current_selector_lines = <<>>,
                                       !.i = st.i + 1]
                  ELSE [st EXCEPT !.current_selector_lines = sel,
                                  !.i = st.i + 1]
             ELSE CleanTail(ls,
                    [st EXCEPT !.cleaned_lines =
                                   st.cleaned_lines \o st.current_selector_lines,
                               !.kept_idx = st.kept_idx
                                   \o Positions(st.i - Len(st.current_selector_lines),
                                                st.i - 1),
                               !.current_selector_lines = <<>>])
        ELSE CleanTail(ls, st)

CleanStart ==
    [i |-> 0, cleaned_lines |-> <<>>, kept_idx |-> <<>>, skip_block |-> FALSE,
     brace_count |-> 0, current_selector_lines |-> <<>>]

RECURSIVE CleanLoop(_, _)
CleanLoop(ls, st) ==
    IF st.i < Len(ls) THEN CleanLoop(ls, CleanBody(ls, st)) ELSE st

\* the content the script writes for a given input content
CleanFilter(content) ==
    Concat(CleanLoop(ReadLines(content), CleanStart).cleaned_lines)


\* lines 11-12
CleanRead ==
    /\ script = "clean"
    /\ pc = "read"
    /\ lines' = ReadLines(input_file)
    /\ pc' = "loop"
    /\ UNCHANGED <<script, fileVars, i, extractVars, kept_idx, cleanVars, createVars, iconVars>>

\* lines 20-66: one iteration of the while loop
CleanIter ==
    /\ script = "clean"
    /\ pc = "loop"
    /\ i < Len(lines)
    /\ LET st == CleanBody(lines,
                   [i |-> i, cleaned_lines |-> cleaned_lines,
                    kept_idx |-> kept_idx,
                    skip_block |-> skip_block, brace_count |-> brace_count,
                    current_selector_lines |-> current_selector_lines])
       IN  /\ i' = st.i
           /\ cleaned_lines' = st.cleaned_lines
           /\ kept_idx' = st.kept_idx
           /\ skip_block' = st.skip_block
           /\ brace_count' = st.brace_count
           /\ current_selector_lines' = st.current_selector_lines
    /\ UNCHANGED <<script, pc, fileVars, lines, extractVars, createVars, iconVars>>

\* lines 69-75
CleanWrite ==
    /\ script = "clean"
    /\ pc = "loop"
    /\ i >= Len(lines)
    /\ output_file' = Concat(cleaned_lines)
    /\ printed' = TRUE
    /\ pc' = "done"
    /\ UNCHANGED <<script, input_file, lines, i, extractVars, kept_idx, cleanVars, createVars,
                   iconVars>>

----------------------------------------------------------------------------
(* create_clean_css.py *)

CreateCatalog ==
    { <<"@media", "{", DARK, "{">>,
      <<SKIN, SPEECH, "{">>,
      <<DARK, ",">>,
      <<".a", "{">>,
      <<SPEECH, "{", "color: white;", "}">>,
      <<"}">>,
      <<>> }

CreateInputs == {Join(ls) : ls \in SeqsUpTo(CreateCatalog, MaxLinesCreate)}

\* lines 92-112
should_remove_block(block_content) ==
    IF In("nativemimic-skin-", block_content) THEN TRUE
    ELSE IF In(SPEECH, block_content) THEN FALSE
    ELSE IF In(".nativemimic-dark-mode", block_content) THEN TRUE
    ELSE FALSE

\* lines 27-75: the body of the for loop, on
\* st = [i, cleaned_lines, skip_block, block_depth, current_block_lines];
\* i is the position of the for loop in lines
CreateBody(ls, st) ==
    LET line          == At(ls, st.i)
        stripped_line == Strip(line)
        block         == Append(st.current_block_lines, line)
        next          == [st EXCEPT !.i = st.i + 1]
    IN  IF In("{", line)
        THEN LET depth == st.block_depth + Count(line, "{")
             IN  IF should_remove_block(Join(block))
                 THEN [next EXCEPT !.block_depth = depth,
                                   !.current_block_lines = block,
                                   !.skip_block = TRUE]
                 ELSE [next EXCEPT !.block_depth = depth,
                                   !.cleaned_lines =
                                       IF ~st.skip_block
                                       THEN st.cleaned_lines \o block
                                       ELSE st.cleaned_lines,
                                   !.current_block_lines = <<>>]
        ELSE IF In("}", line)
        THEN LET depth == st.block_depth - Count(line, "}")
             IN  [next EXCEPT !.block_depth = depth,
                              !.skip_block =
                                  IF st.skip_block THEN ~(depth <= 0) ELSE FALSE,
                              !.cleaned_lines =
                                  IF st.skip_block THEN st.cleaned_lines
                                  ELSE Append(st.cleaned_lines, line),
                              !.current_block_lines =
                                  IF depth <= 0 THEN <<>>
                                  ELSE st.current_block_lines]
        ELSE IF st.skip_block THEN next
        ELSE IF st.block_depth > 0
        THEN [next EXCEPT !.cleaned_lines = Append(st.cleaned_lines, line)]
        ELSE IF ~StartsWith(stripped_line, "/*") /\ stripped_line # <<>>
        THEN IF should_remove_block(Join(block))
             THEN [next EXCEPT !.current_block_lines = <<>>]
             ELSE [next EXCEPT !.cleaned_lines = st.cleaned_lines \o block,
                               !.current_block_lines = <<>>]
        ELSE [next EXCEPT !.cleaned_lines = st.cleaned_lines \o block,
                          !.current_block_lines = <<>>]

\* lines 78-79: the lines still pending after the loop
CreateFlush(st) ==
    IF st.current_block_lines # <<>> /\ ~st.skip_block
    THEN st.cleaned_lines \o st.current_block_lines
    ELSE st.cleaned_lines

CreateStart ==
    [i |-> 0, cleaned_lines |-> <<>>, skip_block |-> FALSE, block_depth |-> 0,
     current_block_lines |-> <<>>]

RECURSIVE CreateLoop(_, _)
CreateLoop(ls, st) ==
    IF st.i < Len(ls) THEN CreateLoop(ls, CreateBody(ls, st)) ELSE st

\* the content the script writes for a given input content
CreateFilter(content) ==
    Join(CreateFlush(CreateLoop(Split(content), CreateStart)))


\* lines 15-19
CreateRead ==
    /\ script = "create"
    /\ pc = "read"
    /\ lines' = Split(input_file)
    /\ pc' = "loop"
    /\ UNCHANGED <<script, fileVars, i, extractVars, kept_idx, cleanVars, createVars, iconVars>>

\* lines 26-75: one iteration of the for loop
CreateIter ==
    /\ script = "create"
    /\ pc = "loop"
    /\ i < Len(lines)
    /\ LET st == CreateBody(lines,
                   [i |-> i, cleaned_lines |-> cleaned_lines,
                    skip_block |-> skip_block, block_depth |-> block_depth,
                    current_block_lines |-> current_block_lines])
       IN  /\ i' = st.i
           /\ cleaned_lines' = st.cleaned_lines
           /\ skip_block' = st.skip_block
           /\ block_depth' = st.block_depth
           /\ current_block_lines' = st.current_block_lines
    /\ UNCHANGED <<script, pc, fileVars, lines, extractVars, kept_idx, brace_count,
                   current_selector_lines, iconVars>>

\* lines 78-90: flush the pending lines, write the output, print the summary
CreateWrite ==
    /\ script = "create"
    /\ pc = "loop"
    /\ i >= Len(lines)
    /\ cleaned_lines' =
           CreateFlush([cleaned_lines |-> cleaned_lines,
                        skip_block |-> skip_block,
                        current_block_lines |-> current_block_lines])
    /\ output_file' = Join(cleaned_lines')
    /\ printed' = TRUE
    /\ pc' = "done"
    /\ UNCHANGED <<script, input_file, lines, i, extractVars, kept_idx, skip_block, brace_count,
                   current_selector_lines, createVars, iconVars>>

----------------------------------------------------------------------------
(* generate_icons.py *)

\* line 48
sizes == <<16, 32, 48, 128>>

\* line 50: f"icon{size}.png"
IconName(size) == "icon" \o ToString(size) \o ".png"

\* line 15: radius=size//5
CornerRadius(size) == size \div 5

\* line 21: int(size * 0.6)
FontSize(size) == (size * 6) \div 10

\* line 32: the box of "Q"; a loaded TrueType face scales with the requested
\* font size, the built-in bitmap font has one fixed size
TextBBox(f, font_size) ==
    IF f = "default" THEN <<0, 0, 6, 11>>
    ELSE <<0, 0, (font_size * 7) \div 10, font_size>>

\* lines 33-36
CenteredAt(size, bbox) ==
    LET text_width  == bbox[3] - bbox[1]
        text_height == bbox[4] - bbox[2]
    IN  <<(size - text_width) \div 2, (size - text_height) \div 2 - 2>>

\* line 41
FallbackAt(size) == <<size \div 4, size \div 4>>

CurrentSize == sizes[size_i + 1]

\* lines 49-50, 9-17: next size of the loop; new canvas with the background
IconBegin ==
    /\ script = "icons"
    /\ pc = "main"
    /\ size_i < Len(sizes)
    /\ img' = [size |-> CurrentSize, radius |-> CornerRadius(CurrentSize),
               fill |-> "lime", glyph |-> "none", at |-> <<0, 0>>]
    /\ font' = "none"
    /\ pc' = "font1"
    /\ UNCHANGED <<script, fileVars, lines, i, extractVars, kept_idx, cleanVars,
                   createVars, size_i, files>>

\* line 24
LoadArial ==
    /\ script = "icons"
    /\ pc = "font1"
    /\ font' = "Arial.ttf"
    /\ pc' = "measure"
    /\ UNCHANGED <<script, fileVars, lines, i, extractVars, kept_idx, cleanVars,
                   createVars, size_i, img, files>>

\* LoadArialFails going straight to the built-in font
LoadArialFails_SkipsSystemFont ==
    /\ script = "icons"
    /\ pc = "font1"
    /\ pc' = "font3"
    /\ UNCHANGED <<script, fileVars, lines, i, extractVars, kept_idx, cleanVars,
                   createVars, iconVars>>

\* lines 24-25: the load raises, the except branch is entered
LoadArialFails ==
    /\ script = "icons"
    /\ pc = "font1"
    /\ pc' = "font2"
    /\ UNCHANGED <<script, fileVars, lines, i, extractVars, kept_idx, cleanVars,
                   createVars, iconVars>>

\* line 27
LoadSystemArial ==
    /\ script = "icons"
    /\ pc = "font2"
    /\ font' = "/System/Library/Fonts/Arial.ttf"
    /\ pc' = "measure"
    /\ UNCHANGED <<script, fileVars, lines, i, extractVars, kept_idx, cleanVars,
                   createVars, size_i, img, files>>

\* lines 27-28
LoadSystemArialFails ==
    /\ script = "icons"
    /\ pc = "font2"
    /\ pc' = "font3"
    /\ UNCHANGED <<script, fileVars, lines, i, extractVars, kept_idx, cleanVars,
                   createVars, iconVars>>

\* line 29: the built-in font is part of the imaging library and needs no
\* file, so this load does not fail
LoadDefault ==
    /\ script = "icons"
    /\ pc = "font3"
    /\ font' = "default"
    /\ pc' = "measure"
    /\ UNCHANGED <<script, fileVars, lines, i, extractVars, kept_idx, cleanVars,
                   createVars, size_i, img, files>>

\* lines 32-36
Measure ==
    /\ script = "icons"
    /\ pc = "measure"
    /\ img' = [img EXCEPT !.at = CenteredAt(img.size,
                                    TextBBox(font, FontSize(img.size)))]
    /\ pc' = "draw"
    /\ UNCHANGED <<script, fileVars, lines, i, extractVars, kept_idx, cleanVars,
                   createVars, size_i, font, files>>

\* MeasureFails with the exception leaving create_icon
MeasureFails_Propagates ==
    /\ script = "icons"
    /\ pc = "measure"
    /\ pc' = "failed"
    /\ UNCHANGED <<script, fileVars, lines, i, extractVars, kept_idx, cleanVars,
                   createVars, iconVars>>

\* line 32 raising
MeasureFails ==
    /\ script = "icons"
    /\ pc = "measure"
    /\ pc' = "fallback"
    /\ UNCHANGED <<script, fileVars, lines, i, extractVars, kept_idx, cleanVars,
                   createVars, iconVars>>

\* line 38
DrawText ==
    /\ script = "icons"
    /\ pc = "draw"
    /\ img' = [img EXCEPT !.glyph = "centered"]
    /\ pc' = "save"
    /\ UNCHANGED <<script, fileVars, lines, i, extractVars, kept_idx, cleanVars,
                   createVars, size_i, font, files>>

\* line 38 raising
DrawTextFails ==
    /\ script = "icons"
    /\ pc = "draw"
    /\ pc' = "fallback"
    /\ UNCHANGED <<script, fileVars, lines, i, extractVars, kept_idx, cleanVars,
                   createVars, iconVars>>

\* lines 39-41
DrawFallback ==
    /\ script = "icons"
    /\ pc = "fallback"
    /\ img' = [img EXCEPT !.glyph = "fallback", !.at = FallbackAt(img.size)]
    /\ pc' = "save"
    /\ UNCHANGED <<script, fileVars, lines, i, extractVars, kept_idx, cleanVars,
                   createVars, size_i, font, files>>

\* lines 43-44, then back to the for loop of line 49
Save ==
    /\ script = "icons"
    /\ pc = "save"
    /\ files' = Append(files, [name |-> IconName(img.size), image |-> img])
    /\ size_i' = size_i + 1
    /\ pc' = "main"
    /\ UNCHANGED <<script, fileVars, lines, i, extractVars, kept_idx, cleanVars,
                   createVars, img, font>>

\* SaveFails with the exception swallowed and the loop going on
SaveFails_Continues ==
    /\ script = "icons"
    /\ pc = "save"
    /\ size_i' = size_i + 1
    /\ pc' = "main"
    /\ UNCHANGED <<script, fileVars, lines, i, extractVars, kept_idx, cleanVars,
                   createVars, img, font, files>>

\* line 43 raising: nothing catches it, neither in create_icon nor in the
\* loop of lines 49-50, so the script ends
SaveFails ==
    /\ script = "icons"
    /\ pc = "save"
    /\ pc' = "failed"
    /\ UNCHANGED <<script, fileVars, lines, i, extractVars, kept_idx, cleanVars,
                   createVars, iconVars>>

\* line 52
IconsFinish ==
    /\ script = "icons"
    /\ pc = "main"
    /\ size_i >= Len(sizes)
    /\ printed' = TRUE
    /\ pc' = "done"
    /\ UNCHANGED <<script, input_file, output_file, lines, i, extractVars,
                   kept_idx, cleanVars, createVars, iconVars>>

----------------------------------------------------------------------------
(* Specifications *)

InitCommon ==
    /\ input_file \in IF script = "extract" THEN ExtractInputs \cup {Missing}
                      ELSE IF script = "clean" THEN CleanInputs
                      ELSE IF script = "create" THEN CreateInputs
                      ELSE {Missing}
    /\ pc = IF script = "icons" THEN "main" ELSE "read"
    /\ output_file = OldOutput
    /\ printed = FALSE
    /\ lines = <<>>
    /\ i = 0
    /\ keep_lines = <<>>
    /\ kept_idx = <<>>
    /\ skip_until_next_section = FALSE
    /\ cleaned_lines = <<>>
    /\ skip_block = FALSE
    /\ brace_count = 0
    /\ current_selector_lines = <<>>
    /\ block_depth = 0
    /\ current_block_lines = <<>>
    /\ size_i = 0
    /\ img = "none"
    /\ font = "none"
    /\ files = <<>>

InitExtract == script = "extract" /\ InitCommon
InitClean   == script = "clean" /\ InitCommon
InitCreate  == script = "create" /\ InitCommon
InitIcons   == script = "icons" /\ InitCommon
Init        == script \in {"extract", "clean", "create", "icons"} /\ InitCommon

NextExtract ==
    \/ ExtractRead
    \/ ExtractReadFails
    \/ ExtractIter
    \/ ExtractOpen
    \/ ExtractOpenFails
    \/ ExtractWrite
    \/ ExtractWriteFails
    \/ ExtractPrint

NextClean == CleanRead \/ CleanIter \/ CleanWrite

NextCreate == CreateRead \/ CreateIter \/ CreateWrite

NextIcons ==
    \/ IconBegin
    \/ LoadArial
    \/ LoadArialFails
    \/ LoadSystemArial
    \/ LoadSystemArialFails
    \/ LoadDefault
    \/ Measure
    \/ MeasureFails
    \/ DrawText
    \/ DrawTextFails
    \/ DrawFallback
    \/ Save
    \/ SaveFails
    \/ IconsFinish

NextFilters == NextExtract \/ NextClean \/ NextCreate

Next == NextFilters \/ NextIcons

SpecExtract == InitExtract /\ [][NextExtract]_vars
SpecClean   == InitClean /\ [][NextClean]_vars
SpecCreate  == InitCreate /\ [][NextCreate]_vars
SpecIcons   == InitIcons /\ [][NextIcons]_vars
SpecFilters == (InitExtract \/ InitClean \/ InitCreate) /\ [][NextFilters]_vars
Spec        == Init /\ [][Next]_vars

----------------------------------------------------------------------------
(* Properties *)

Range(f) == {f[k] : k \in DOMAIN f}

Min(S) == CHOOSE m \in S : \A n \in S : m <= n
Max(S) == CHOOSE m \in S : \A n \in S : n <= m

\* the members of a set of positions, in ascending order
RECURSIVE Ascending(_)
Ascending(S) ==
    IF S = {} THEN <<>> ELSE <<Min(S)>> \o Ascending(S \ {Min(S)})

\* opening minus closing braces of the lines a..b
RECURSIVE BraceSum(_, _, _)
BraceSum(ls, a, b) ==
    IF a > b THEN 0
    ELSE Count(At(ls, a), "{") - Count(At(ls, a), "}") + BraceSum(ls, a + 1, b)

AllPositions(ls) == 0..(Len(ls) - 1)

\* the line that ends a brace-counted skip begun at line s: the first line at
\* which the running count is zero or below, else the last line of the file
SkipEndsAt(ls, s) ==
    LET E == {e \in s..(Len(ls) - 1) : BraceSum(ls, s, e) <= 0}
    IN  IF E = {} THEN Len(ls) - 1 ELSE Min(E)

\* a line matching a removal pattern of extract_clean_css
MatchesRemoval(line) ==
    IsGeneralDarkMode(Strip(line)) \/ IsSkinSelector(Strip(line))

\* the first lines of the removed blocks, scanning from line k
RECURSIVE BlockStartsFrom(_, _)
BlockStartsFrom(ls, k) ==
    IF k >= Len(ls) THEN {}
    ELSE IF MatchesRemoval(At(ls, k))
    THEN {k} \cup BlockStartsFrom(ls, SkipEndsAt(ls, k) + 1)
    ELSE BlockStartsFrom(ls, k + 1)

BlockStarts(ls) == BlockStartsFrom(ls, 0)

\* the positions inside the removed blocks
RemovedPositions(ls) ==
    UNION {s..SkipEndsAt(ls, s) : s \in BlockStarts(ls)}

\* the positions the outer loop looks at while the section skip flag is set
SectionSkippedPositions(ls) ==
    LET outer == (AllPositions(ls) \ RemovedPositions(ls)) \cup BlockStarts(ls)
        marks == {k \in outer : \/ IsSectionHeader(Strip(At(ls, k)))
                                \/ IsSkinSection(Strip(At(ls, k)))}
    IN  {j \in outer :
           LET E == {k \in marks : k <= j}
           IN  E # {} /\ IsSkinSection(Strip(At(ls, Max(E))))}

ExtractLoopDone == script = "extract" /\ pc \in {"write", "print", "done"}

\* C1 as stated: after the loop of extract_clean_css the kept lines are
\* exactly the input lines outside the removed blocks, in input order, each
\* once.
C1_KeptIsInputMinusBlocks ==
    ExtractLoopDone =>
        /\ kept_idx = Ascending(AllPositions(lines) \ RemovedPositions(lines))
        /\ keep_lines = [n \in DOMAIN kept_idx |-> At(lines, kept_idx[n])]

\* C1 amended: after the loop of extract_clean_css the kept lines are exactly
\* the input lines that are neither inside a removed block nor looked at while
\* the section skip flag is set, in input order, each once and unmodified.
C1_KeptIsInputMinusBlocksAndSkippedSections ==
    ExtractLoopDone =>
        /\ kept_idx = Ascending(AllPositions(lines)
                                    \ (RemovedPositions(lines)
                                         \cup SectionSkippedPositions(lines)))
        /\ keep_lines = [n \in DOMAIN kept_idx |-> At(lines, kept_idx[n])]

\* a run that removed a block of several lines, dropped a line in skip mode
\* and kept a line
C1_Witness ==
    /\ ExtractLoopDone
    /\ \E s \in BlockStarts(lines) : SkipEndsAt(lines, s) > s
    /\ SectionSkippedPositions(lines) \ RemovedPositions(lines) # {}
    /\ keep_lines # <<>>

----------------------------------------------------------------------------
(* Rule blocks of a stylesheet, read off its text *)

SelectorTokens ==
    {SKIN, DARK, SPEECH, SKINID, ".a", "#id", "div", ",", "@media"}

\* a line of selector text only: no brace, no declaration, no comment
IsSelectorText(line) ==
    /\ Strip(line) # <<>>
    /\ \A k \in DOMAIN Strip(line) : Strip(line)[k] \in SelectorTokens

\* the text of a line before its first opening brace
SelectorOf(line) ==
    LET t == Strip(line)
        p == Min({k \in DOMAIN t : t[k] = "{"})
    IN  SubSeq(t, 1, p - 1)

\* a line that opens a rule block: selector text, then an opening brace
OpensBlock(line) ==
    /\ Count(line, "{") >= 1
    /\ SelectorOf(line) # <<>>
    /\ \A k \in DOMAIN SelectorOf(line) : SelectorOf(line)[k] \in SelectorTokens

\* a whole rule block on one line
OneLineBlock(line) ==
    /\ OpensBlock(line)
    /\ Count(line, "{") = 1
    /\ Count(line, "}") = 1
    /\ Strip(line)[Len(Strip(line))] = "}"

\* a line after which a new rule can start
EndsRule(line) ==
    \/ Strip(line) = <<>>
    \/ StartsWith(Strip(line), "/*")
    \/ Strip(line)[Len(Strip(line))] = "}"

\* line k stands at the top level of a so far well nested stylesheet, right
\* after the end of a rule, a comment, an empty line or the start of the file
StartsRule(ls, k) ==
    /\ \A j \in 0..(k - 1) : BraceSum(ls, 0, j) >= 0
    /\ BraceSum(ls, 0, k - 1) = 0
    /\ k > 0 => EndsRule(At(ls, k - 1))

\* the line with the closing brace that matches the block opened on line o
MatchingClose(ls, o) ==
    LET E == {e \in o..(Len(ls) - 1) : BraceSum(ls, o, e) <= 0}
    IN  IF E = {} THEN Len(ls) - 1 ELSE Min(E)

CleanDone == script = "clean" /\ pc = "done"

Kept == Range(kept_idx)

\* line k of the input is in the output, unmodified
KeptVerbatim(k) ==
    \E n \in DOMAIN kept_idx : kept_idx[n] = k /\ cleaned_lines[n] = At(lines, k)

\* C2, for rule blocks written on one line: clean_css removes every block
\* whose selector has the general dark-mode marker without the
\* speech-controls one, and retains verbatim every block whose selector has
\* the speech-controls dark-mode marker and no skin marker, wherever the
\* block stands, also right after a removed block.
C2_DarkRemovedSpeechRetained ==
    CleanDone =>
        \A k \in AllPositions(lines) :
            (StartsRule(lines, k) /\ OneLineBlock(At(lines, k))) =>
                LET sel == SelectorOf(At(lines, k))
                IN  /\ (In(".nativemimic-dark-mode", sel) /\ ~In(SPEECH, sel))
                           => k \notin Kept
                    /\ (In(SPEECH, sel) /\ ~In(".nativemimic-skin-", sel))
                           => KeptVerbatim(k)

\* C3, for clean_css: a rule block whose selector contains
\* .nativemimic-skin-grid is removed in full, from its opening line through
\* its closing brace, whatever dark-mode marker the selector also has.
C3_SkinBlockRemoved ==
    CleanDone =>
        \A k \in AllPositions(lines) :
            (/\ StartsRule(lines, k)
             /\ OpensBlock(At(lines, k))
             /\ In(".nativemimic-skin-", SelectorOf(At(lines, k))))
            => \A j \in k..MatchingClose(lines, k) : j \notin Kept

\* C4: when clean_css writes its output no selector line is left in
\* current_selector_lines, neither emitted nor removed with a block.
C4_NoBufferedLineLost ==
    CleanDone => current_selector_lines = <<>>

\* C10: in clean_css a selector on two lines is one unit: the decision is
\* taken on the two lines together, and both lines and the body are removed,
\* or all are kept, whatever the first line starts with.
C10_SelectorLinesAreOneUnit ==
    CleanDone =>
        \A k \in AllPositions(lines) :
            (/\ StartsRule(lines, k)
             /\ k + 1 < Len(lines)
             /\ IsSelectorText(At(lines, k))
             /\ OpensBlock(At(lines, k + 1)))
            => LET remove == should_remove_selector(
                                 At(lines, k) \o At(lines, k + 1))
               IN  \A j \in k..MatchingClose(lines, k + 1) :
                       j \in Kept <=> ~remove

\* the block that starts on line s has its opening brace on line o
OpensAt(ls, s, o) ==
    /\ s <= o
    /\ o < Len(ls)
    /\ \A j \in s..(o - 1) : IsSelectorText(At(ls, j))
    /\ OpensBlock(At(ls, o))

\* C5: when an iteration of extract_clean_css matches the first line of a
\* block, it moves the cursor just past the line with the closing brace that
\* matches the block's opening brace.
C5_SkipEndsAtMatchingClose ==
    [][ \A o \in AllPositions(lines) :
           (/\ script = "extract"
            /\ pc = "loop"
            /\ i < Len(lines)
            /\ MatchesRemoval(At(lines, i))
            /\ OpensAt(lines, i, o))
           => i' = MatchingClose(lines, o) + 1 ]_vars

\* no line of a content is one the classifier of create_clean_css removes
NoRemovalPattern(content) ==
    \A k \in DOMAIN Split(content) : ~should_remove_block(Split(content)[k])

\* C6 as stated: running a filter on its own output changes nothing.
C6_Idempotent ==
    pc = "done" =>
        CASE script = "extract" -> ExtractFilter(output_file) = output_file
          [] script = "clean"   -> CleanFilter(output_file) = output_file
          [] script = "create"  -> CreateFilter(output_file) = output_file
          [] OTHER              -> TRUE

\* C6 amended: extract_clean_css and clean_css change nothing when run on
\* their own output; create_clean_css changes nothing when run on its own
\* output provided that output holds no removal pattern.
C6_IdempotentOnCleanOutput ==
    pc = "done" =>
        CASE script = "extract" -> ExtractFilter(output_file) = output_file
          [] script = "clean"   -> CleanFilter(output_file) = output_file
          [] script = "create"  ->
                 NoRemovalPattern(output_file)
                     => CreateFilter(output_file) = output_file
          [] OTHER              -> TRUE

\* create_clean_css removed something and left something without a pattern
C6_Witness ==
    /\ script = "create"
    /\ pc = "done"
    /\ output_file # input_file
    /\ output_file # <<>>
    /\ NoRemovalPattern(output_file)

\* C9: after a run of extract_clean_css the output file holds the full
\* filtered content or is as it was before the run; if the input could not be
\* read it is untouched and nothing is printed.
C9_AllOrNothing ==
    (script = "extract" /\ pc \in {"done", "failed"}) =>
        /\ \/ output_file = OldOutput
           \/ input_file # Missing /\ output_file = ExtractFilter(input_file)
        /\ lines = <<>> => (output_file = OldOutput /\ ~printed)

----------------------------------------------------------------------------
(* Properties of generate_icons.py *)

FileNames == [k \in DOMAIN files |-> files[k].name]

IconNames == [k \in DOMAIN sizes |-> IconName(sizes[k])]

\* C7: whatever font load, measurement or font-based drawing fails, no such
\* failure ends the run, every icon saved shows a glyph on the background, the
\* files are created in the order of the sizes, one per size, and a finished
\* run has created exactly icon16.png, icon32.png, icon48.png, icon128.png.
C7_FourIconsWhateverFontFails ==
    /\ [](/\ FileNames = SubSeq(IconNames, 1, Len(files))
          /\ \A k \in DOMAIN files :
                 /\ files[k].image.size = sizes[k]
                 /\ files[k].image.fill = "lime"
                 /\ files[k].image.glyph \in {"centered", "fallback"}
          /\ pc = "done" =>
                 FileNames = <<"icon16.png", "icon32.png", "icon48.png",
                               "icon128.png">>)
    /\ [][pc' = "failed" => pc = "save"]_vars

\* a finished run in which one icon got the fallback placement and another
\* the centred one
C7_Witness ==
    /\ script = "icons"
    /\ pc = "done"
    /\ \E k \in DOMAIN files : files[k].image.glyph = "fallback"
    /\ \E k \in DOMAIN files : files[k].image.glyph = "centered"

\* C8 as stated: when the run is over, every size other than the one whose
\* save failed has its icon file.
C8_OnlyThatIconIsLost ==
    (script = "icons" /\ pc \in {"done", "failed"}) =>
        \A k \in DOMAIN sizes :
            \/ pc = "failed" /\ k = size_i + 1
            \/ IconName(sizes[k]) \in Range(FileNames)

\* C8 amended: a failing save ends the whole run: a step from the save either
\* writes the file or ends the run, nothing follows the failure, and the
\* files then present are those of the sizes before the failing one.
C8_SaveFailureEndsRun ==
    /\ [](pc = "failed" =>
            /\ FileNames = SubSeq(IconNames, 1, size_i)
            /\ ~printed)
    /\ [][/\ (pc = "save" /\ files' = files) => pc' = "failed"
          /\ pc # "failed"]_vars

\* the save of the second icon failed after the first was written
C8_Witness ==
    /\ script = "icons"
    /\ pc = "failed"
    /\ size_i = 1
    /\ FileNames = <<"icon16.png">>

----------------------------------------------------------------------------
(* Classifiers, section skip, font order, loop state *)

\* the ordered rule set: the skin marker removes; else the speech-controls
\* dark-mode marker keeps; else the general dark-mode marker removes
RuleSet(text) ==
    IF In(".nativemimic-skin-", text) THEN TRUE
    ELSE IF In(SPEECH, text) THEN FALSE
    ELSE In(".nativemimic-dark-mode", text)

\* C11: on every line of every input the three classifiers, the one of
\* clean_css, the one of create_clean_css and the inline tests of
\* extract_clean_css, give the answer of the ordered rule set.
C11_ClassifiersAgree ==
    \A k \in AllPositions(lines) :
        LET text == At(lines, k)
        IN  /\ should_remove_selector(text) = RuleSet(text)
            /\ should_remove_block(text) = RuleSet(text)
            /\ (IsGeneralDarkMode(Strip(text)) \/ IsSkinSelector(Strip(text)))
                   = RuleSet(text)

ExtractLooksAt(line) ==
    /\ script = "extract"
    /\ pc = "loop"
    /\ i < Len(lines)
    /\ line = Strip(At(lines, i))

\* C12 as stated: an iteration of extract_clean_css on a section-header line
\* leaves skip_until_next_section false and keeps the header line.
C12_HeaderResetsAndIsKept ==
    [][ \A line \in {Strip(At(lines, k)) : k \in AllPositions(lines)} :
           (ExtractLooksAt(line) /\ IsSectionHeader(line))
           => /\ ~skip_until_next_section'
              /\ kept_idx' = Append(kept_idx, i) ]_vars

\* C12 amended: a section-header line without a skin marker leaves
\* skip_until_next_section false; a line with skin-presets, skin-custom or
\* skin-grid, header or not, leaves it true; a line the loop looks at that
\* matches no removal pattern is kept when the flag is false after these two
\* tests (so such a header is kept); only a line with a skin marker sets the
\* flag and only a section-header line clears it.
C12_HeaderWithoutSkinMarkerResets ==
    [][ \A line \in {Strip(At(lines, k)) : k \in AllPositions(lines)} :
           ExtractLooksAt(line) =>
               /\ (IsSectionHeader(line) /\ ~IsSkinSection(line))
                      => ~skip_until_next_section'
               /\ IsSkinSection(line) => skip_until_next_section'
               /\ (/\ ~skip_until_next_section'
                   /\ ~IsGeneralDarkMode(line)
                   /\ ~IsSkinSelector(line))
                      => /\ kept_idx' = Append(kept_idx, i)
                         /\ keep_lines' = Append(keep_lines, At(lines, i))
               /\ (~skip_until_next_section /\ skip_until_next_section')
                      => IsSkinSection(line)
               /\ (skip_until_next_section /\ ~skip_until_next_section')
                      => IsSectionHeader(line) ]_vars

\* a skin marker line was dropped, a later header was kept and skip mode is off
C12_Witness ==
    /\ script = "extract"
    /\ pc = "loop"
    /\ ~skip_until_next_section
    /\ \E k \in 0..(i - 1) :
           /\ IsSectionHeader(Strip(At(lines, k)))
           /\ k \in Range(kept_idx)
           /\ \E j \in 0..(k - 1) :
                  /\ IsSkinSection(Strip(At(lines, j)))
                  /\ j \notin Range(kept_idx)
           /\ \E j \in (k + 1)..(i - 1) : j \in Range(kept_idx)

\* C13: the font sources are tried in order, each at most once per icon:
\* Arial.ttf first, the system Arial only after the first load failed, the
\* built-in font only after both failed; the font that loaded is the one used
\* to measure and draw; the fixed-offset placement is used only after
\* measuring or drawing with that font failed.
C13_FontFallbackInOrder ==
    /\ [](/\ pc \in {"font1", "font2", "font3"} => font = "none"
          /\ pc \in {"measure", "draw"} => font # "none")
    /\ [][/\ pc' = "font1" => pc \in {"main", "font1"}
          /\ pc' = "font2" => pc \in {"font1", "font2"}
          /\ pc' = "font3" => pc \in {"font2", "font3"}
          /\ (pc = "font1" /\ pc' = "measure") => font' = "Arial.ttf"
          /\ (pc = "font2" /\ pc' = "measure")
                 => font' = "/System/Library/Fonts/Arial.ttf"
          /\ (pc = "font3" /\ pc' = "measure") => font' = "default"
          /\ pc \in {"measure", "draw", "fallback", "save"} => font' = font
          /\ pc' = "fallback" => pc \in {"measure", "draw", "fallback"}
          /\ (pc = "fallback" /\ pc' = "save")
                 => /\ img'.glyph = "fallback"
                    /\ img'.at = <<img.size \div 4, img.size \div 4>>
          /\ (pc = "draw" /\ pc' = "save")
                 => /\ img'.glyph = "centered"
                    /\ img'.at = CenteredAt(img.size,
                                            TextBBox(font, FontSize(img.size)))
         ]_vars

\* both Arial loads failed, the built-in font loaded, and drawing with it
\* failed, so the icon got the fixed-offset placement
C13_Witness ==
    /\ script = "icons"
    /\ pc = "save"
    /\ font = "default"
    /\ img.glyph = "fallback"
    /\ img.at = <<4, 4>>

\* C14: while create_clean_css runs, block_depth is the brace nesting depth
\* of the lines read so far: their opening minus their closing braces.
C14_DepthIsTrueDepth ==
    (script = "create" /\ pc \in {"loop", "done"}) =>
        block_depth = BraceSum(lines, 0, i - 1)

StrictlyIncreasing(f) ==
    \A m, n \in DOMAIN f : m < n => f[m] < f[n]

\* C15: every iteration of a filter loop moves the cursor forward and never
\* past the end (by exactly one line in create_clean_css), the loop is left
\* with i = len(lines), and no line is kept twice or out of order; so
\* len(lines) - i strictly decreases and the loop ends.
C15_LoopsTerminate ==
    /\ [][(script \in {"extract", "clean", "create"}
              /\ pc = "loop" /\ i < Len(lines))
          => /\ i' > i
             /\ i' <= Len(lines)
             /\ script = "create" => i' = i + 1
             /\ pc' = "loop"]_vars
    /\ [](/\ pc \notin {"read", "loop"} => i = Len(lines)
          /\ StrictlyIncreasing(kept_idx)
          /\ Range(kept_idx) \subseteq 0..(i - 1))

\* a finished run of extract_clean_css whose loop skipped a block of several
\* lines in one iteration and kept a line
C15_Witness ==
    /\ script = "extract"
    /\ pc = "done"
    /\ \E s \in BlockStarts(lines) : SkipEndsAt(lines, s) > s
    /\ kept_idx # <<>>

\* C16: at the top of every iteration of clean_css, skip_block implies
\* brace_count >= 1 and an empty current_selector_lines, no skip_block implies
\* brace_count = 0; an iteration that starts with skip_block appends nothing
\* to cleaned_lines.
C16_ScannerStateConsistent ==
    /\ []((script = "clean" /\ pc = "loop") =>
            /\ skip_block => (brace_count >= 1 /\ current_selector_lines = <<>>)
            /\ ~skip_block => brace_count = 0)
    /\ [][(script = "clean" /\ pc = "loop" /\ skip_block)
             => cleaned_lines' = cleaned_lines]_vars

\* inside a nested block of a removed block, with lines still to read
C16_Witness ==
    /\ script = "clean"
    /\ pc = "loop"
    /\ skip_block
    /\ brace_count >= 2
    /\ i < Len(lines)
    /\ cleaned_lines # <<>>

====
